---- MODULE Spec2Model ----
(***************************************************************************)
(* Model of the evaluation engine of opening-hours-rs:                     *)
(*   src/src/time_domain.rs    TimeDomain, TimeDomainIterator, RuleSequence*)
(*   src/src/extended_time.rs  ExtendedTime                                *)
(*   src/opening-hours-syntax/src/rules/day.rs  DateOffset                 *)
(*                                                                         *)
(* Dates are day numbers (day 0 is a Monday); a NaiveDateTime is the       *)
(* number of minutes since day 0 00:00.  The calendar is scaled down: the  *)
(* last day of year 9999 is day LastDay.  A time of day inside a schedule  *)
(* is an ExtendedTime given as minutes from midnight.  A comment list      *)
(* (always kept sorted and free of duplicates) is the set of its strings.  *)
(***************************************************************************)
EXTENDS Integers, Sequences, FiniteSets, TLC

VARIABLES
    rules,          \* TimeDomain.rules
    date,           \* argument of TimeDomain::schedule_at
    idx,            \* number of rules the fold of schedule_at has consumed
    prev_eval,      \* closure argument prev_eval of the last fold step
    curr_eval,      \* closure local curr_eval of the last fold step
    acc,            \* accumulator of the fold
    resolved,       \* return value of TimeDomain::schedule_at, once returned
    from,           \* start instant given to iter_from / intervals
    to,             \* end instant given to intervals
    curr_date,      \* TimeDomainIterator.curr_date
    curr_schedule,  \* TimeDomainIterator.curr_schedule (what is left of it)
    out,            \* items returned so far by the iterator
    ended,          \* the iterator returned None
    time,           \* receiver of ExtendedTime::add_minutes / add_hours
    offset,         \* signed 16-bit argument of add_minutes / add_hours
    result,         \* outcomes of the last add_minutes / add_hours call
    anchor,         \* date given to DateOffset::apply
    date_offset,    \* receiver of DateOffset::apply
    applied         \* return value of DateOffset::apply, once returned

vars == <<rules, date, idx, prev_eval, curr_eval, acc, resolved, from, to,
          curr_date, curr_schedule, out, ended, time, offset, result,
          anchor, date_offset, applied>>

----------------------------------------------------------------------------
(* Bounds of the model *)

\* number of rules of a TimeDomain
MaxRules == 2

\* day number of the last day whose year is <= 9999 (scaled calendar)
LastDay == 5

\* day number of the last date given to DateOffset::apply
MaxAnchor == 13

\* largest day count, in either direction, of a DateOffset
MaxDayOffset == 3

----------------------------------------------------------------------------
(* Calendar and instants *)

MinsPerHour == 6 * 10
MinsPerDay == 24 * MinsPerHour

\* chrono::Datelike::weekday as num_days_from_monday
Weekday(d) == d % 7

\* date.year() <= 9999
YearInRange(d) == d <= LastDay

\* NaiveDateTime::new(date, time) for an in-day time given in minutes
DateTime(d, t) == d * MinsPerDay + t

\* NaiveDateTime::date and the ExtendedTime of NaiveDateTime::time
DateOf(dt) == dt \div MinsPerDay
TimeOf(dt) == dt % MinsPerDay

----------------------------------------------------------------------------
(* Per-day schedules (crate::schedule) *)

RECURSIVE SortedSeq(_)
SortedSeq(S) ==
    IF S = {} THEN <<>>
    ELSE LET m == CHOOSE x \in S : \A y \in S : x <= y
         IN  <<m>> \o SortedSeq(S \ {m})

\* the elementary spans between consecutive points of a set of times
Segments(pts) ==
    LET p == SortedSeq(pts)
    IN  [i \in 1..(Len(p) - 1) |-> [start |-> p[i], end |-> p[i + 1]]]

Boundaries(s) ==
    {s[i].start : i \in DOMAIN s} \cup {s[i].end : i \in DOMAIN s}

NoValue == [kind |-> "None", comments |-> {}]

\* state and comments a schedule gives to time t
ValueAt(s, t) ==
    IF \E i \in DOMAIN s : s[i].start <= t /\ t < s[i].end
    THEN LET i == CHOOSE j \in DOMAIN s : s[j].start <= t /\ t < s[j].end
         IN  [kind |-> s[i].kind, comments |-> s[i].comments]
    ELSE NoValue

\* drops the spans nothing covers and merges adjacent spans of equal value
RECURSIVE Normalise(_)
Normalise(segs) ==
    IF segs = <<>> THEN <<>>
    ELSE IF Head(segs).kind = "None" THEN Normalise(Tail(segs))
    ELSE IF /\ Len(segs) >= 2
            /\ segs[2].start = segs[1].end
            /\ segs[2].kind = segs[1].kind
            /\ segs[2].comments = segs[1].comments
         THEN Normalise(<<[segs[1] EXCEPT !.end = segs[2].end]>>
                        \o SubSeq(segs, 3, Len(segs)))
    ELSE <<Head(segs)>> \o Normalise(Tail(segs))

WithValue(seg, v) ==
    [start |-> seg.start, end |-> seg.end, kind |-> v.kind, comments |-> v.comments]

\* Schedule::empty
EmptySchedule == <<>>

\* Schedule::from_ranges
FromRanges(ranges, kind, comments) ==
    LET live == {i \in DOMAIN ranges : ranges[i].start < ranges[i].end}
        pts  == {ranges[i].start : i \in live} \cup {ranges[i].end : i \in live}
        segs == Segments(pts)
        Val(t) == IF \E i \in live : ranges[i].start <= t /\ t < ranges[i].end
                  THEN [kind |-> kind, comments |-> comments]
                  ELSE NoValue
    IN  Normalise([i \in DOMAIN segs |-> WithValue(segs[i], Val(segs[i].start))])

\* state of a span both schedules cover
JoinKind(k1, k2) ==
    IF "Open" \in {k1, k2} THEN "Open"
    ELSE IF "Closed" \in {k1, k2} THEN "Closed"
    ELSE "Unknown"

JoinValue(v1, v2) ==
    IF v1.kind = "None" THEN v2
    ELSE IF v2.kind = "None" THEN v1
    ELSE [kind |-> JoinKind(v1.kind, v2.kind), comments |-> v1.comments \cup v2.comments]

\* Schedule::addition
Addition(a, b) ==
    LET segs == Segments(Boundaries(a) \cup Boundaries(b))
    IN  Normalise([i \in DOMAIN segs |->
            WithValue(segs[i], JoinValue(ValueAt(a, segs[i].start),
                                         ValueAt(b, segs[i].start)))])

\* Schedule::into_iter_filled
IntoIterFilled(s) ==
    LET segs == Segments(Boundaries(s) \cup {0, MinsPerDay})
        Val(t) == IF ValueAt(s, t).kind = "None"
                  THEN [kind |-> "Unknown", comments |-> {}]
                  ELSE ValueAt(s, t)
    IN  Normalise([i \in DOMAIN segs |-> WithValue(segs[i], Val(segs[i].start))])

----------------------------------------------------------------------------
(* Option<Schedule> *)

None == [some |-> FALSE, val |-> <<>>]
Some(s) == [some |-> TRUE, val |-> s]

\* Option::or
OptionOr(a, b) == IF a.some THEN a ELSE b

----------------------------------------------------------------------------
(* Selectors of a rule (crate::day_selector, crate::time_selector) *)

\* DaySelector::filter, for a selector with weekday entries only;
\* a selector without entries matches every date
DayFilter(sel, d) == sel = {} \/ Weekday(d) \in sel

Clip(r, lo, hi) ==
    [start |-> IF r.start < lo THEN lo ELSE r.start,
     end   |-> IF r.end > hi THEN hi ELSE r.end]

\* the non-empty ranges of a sequence of ranges
RECURSIVE NonEmptyRanges(_)
NonEmptyRanges(s) ==
    IF s = <<>> THEN <<>>
    ELSE (IF Head(s).start < Head(s).end THEN <<Head(s)>> ELSE <<>>)
         \o NonEmptyRanges(Tail(s))

\* TimeSelector::intervals_at: the part of each range inside 00:00-24:00
IntervalsAt(tsel, d) ==
    NonEmptyRanges([i \in DOMAIN tsel |-> Clip(tsel[i], 0, MinsPerDay)])

\* TimeSelector::intervals_at_next_day: the part of each range inside
\* 24:00-48:00, moved back by 24 hours
IntervalsAtNextDay(tsel, d) ==
    LET Back(r) == [start |-> r.start - MinsPerDay, end |-> r.end - MinsPerDay]
    IN  NonEmptyRanges([i \in DOMAIN tsel |->
                            Back(Clip(tsel[i], MinsPerDay, 2 * MinsPerDay))])

----------------------------------------------------------------------------
(* RuleSequence *)

\* the match at the end of RuleSequence::schedule_at and the Additional arm
\* of TimeDomain::schedule_at: the addition of two contributions, or the one
\* that carries information
AddOrEither(a, b) ==
    IF a.some /\ b.some THEN Some(Addition(a.val, b.val)) ELSE OptionOr(a, b)

\* the block `today` of RuleSequence::schedule_at
Today(rule, d) ==
    IF DayFilter(rule.day_selector, d)
    THEN Some(FromRanges(IntervalsAt(rule.time_selector, d), rule.kind, rule.comments))
    ELSE None

\* the block `yesterday` of RuleSequence::schedule_at, given date - 1 day
Yesterday(rule, y) ==
    IF DayFilter(rule.day_selector, y)
    THEN Some(FromRanges(IntervalsAtNextDay(rule.time_selector, y),
                         rule.kind, rule.comments))
    ELSE None

\* the mutant of RuleSequenceScheduleAt that forgets the previous day
RuleSequenceScheduleAtTodayOnly(rule, d) == Today(rule, d)

\* RuleSequence::schedule_at
RuleSequenceScheduleAt(rule, d) == AddOrEither(Today(rule, d), Yesterday(rule, d - 1))

----------------------------------------------------------------------------
(* TimeDomain::schedule_at *)

\* the mutant of Combine whose Normal arm keeps earlier information
CombineNormalKeeps(operator, prev, curr) ==
    CASE operator = "Normal" -> OptionOr(curr, prev)
      [] operator = "Additional" -> AddOrEither(prev, curr)
      [] operator = "Fallback" -> OptionOr(prev, curr)

\* the mutant of Combine whose Additional arm lets the rule override
CombineAdditionalOverrides(operator, prev, curr) ==
    CASE operator = "Normal" -> curr
      [] operator = "Additional" -> OptionOr(curr, prev)
      [] operator = "Fallback" -> OptionOr(prev, curr)

\* the match on the operator in the closure folded over the rules
Combine(operator, prev, curr) ==
    CASE operator = "Normal" -> curr
      [] operator = "Additional" -> AddOrEither(prev, curr)
      [] operator = "Fallback" -> OptionOr(prev, curr)

\* the closure folded over the rules
FoldStep(prev, rule, d) ==
    Combine(rule.operator, prev, RuleSequenceScheduleAt(rule, d))

\* Option::unwrap_or_else(Schedule::empty)
UnwrapOrEmpty(o) == IF o.some THEN o.val ELSE EmptySchedule

RECURSIVE Fold(_, _, _)
Fold(prev, rs, d) ==
    IF rs = <<>> THEN prev ELSE Fold(FoldStep(prev, Head(rs), d), Tail(rs), d)

TimeDomainScheduleAt(rs, d) == UnwrapOrEmpty(Fold(None, rs, d))

----------------------------------------------------------------------------
(* TimeDomainIterator *)

\* the loop of TimeDomainIterator::new: drops the leading entries whose
\* range does not contain the start time
RECURSIVE SkipUntilContains(_, _)
SkipUntilContains(sched, t) ==
    IF sched # <<>> /\ ~(Head(sched).start <= t /\ t < Head(sched).end)
    THEN SkipUntilContains(Tail(sched), t)
    ELSE sched

\* the mutant of IteratorNew that keeps the leading entries of the day
IteratorNewNoSkip(rs, start_datetime) ==
    LET start_date == DateOf(start_datetime)
    IN  [curr_date |-> start_date,
         curr_schedule |->
            IF YearInRange(start_date)
            THEN IntoIterFilled(TimeDomainScheduleAt(rs, start_date))
            ELSE <<>>]

\* TimeDomainIterator::new
IteratorNew(rs, start_datetime) ==
    LET start_date == DateOf(start_datetime)
        start_time == TimeOf(start_datetime)
        filled == IF YearInRange(start_date)
                  THEN IntoIterFilled(TimeDomainScheduleAt(rs, start_date))
                  ELSE <<>>
    IN  [curr_date |-> start_date,
         curr_schedule |-> SkipUntilContains(filled, start_time)]

\* the body of the loop of consume_until_next_kind: drops the entry at the
\* head and, when none is left, moves to the next day and loads the schedule
\* of that day unless it lies past year 9999
ConsumeOne(rs, it) ==
    IF Tail(it.curr_schedule) = <<>>
    THEN [curr_date |-> it.curr_date + 1,
          curr_schedule |->
             IF YearInRange(it.curr_date + 1)
             THEN IntoIterFilled(TimeDomainScheduleAt(rs, it.curr_date + 1))
             ELSE <<>>]
    ELSE [curr_date |-> it.curr_date, curr_schedule |-> Tail(it.curr_schedule)]

\* the mutant of ConsumeUntilNextKind that stops at the end of the day
RECURSIVE ConsumeWithinDay(_, _, _)
ConsumeWithinDay(rs, it, curr_kind) ==
    IF it.curr_schedule # <<>> /\ Head(it.curr_schedule).kind = curr_kind
    THEN IF Tail(it.curr_schedule) = <<>>
         THEN ConsumeOne(rs, it)
         ELSE ConsumeWithinDay(rs, ConsumeOne(rs, it), curr_kind)
    ELSE it

\* TimeDomainIterator::consume_until_next_kind
RECURSIVE ConsumeUntilNextKind(_, _, _)
ConsumeUntilNextKind(rs, it, curr_kind) ==
    IF it.curr_schedule # <<>> /\ Head(it.curr_schedule).kind = curr_kind
    THEN ConsumeUntilNextKind(rs, ConsumeOne(rs, it), curr_kind)
    ELSE it

NoItem == [some |-> FALSE]

\* DateTimeRange::new_with_sorted_comments, as Some(item)
DateTimeRange(start, end, kind, comments) ==
    [some |-> TRUE, start |-> start, end |-> end, kind |-> kind, comments |-> comments]

\* end_time of TimeDomainIterator::next: the start of the entry at the head
\* of what is left, or 00:00
EndTime(it) ==
    IF it.curr_schedule # <<>> THEN Head(it.curr_schedule).start ELSE 0

\* the item TimeDomainIterator::next builds from the date and the entry it
\* stood on and from the iterator after consume_until_next_kind
ItemOf(start_date, curr_tr, after) ==
    [item |-> DateTimeRange(DateTime(start_date, curr_tr.start),
                            DateTime(after.curr_date, EndTime(after)),
                            curr_tr.kind, curr_tr.comments),
     it |-> after]

\* TimeDomainIterator::next: the item returned and the iterator afterwards
IteratorNext(rs, it) ==
    IF it.curr_schedule # <<>>
    THEN ItemOf(it.curr_date, Head(it.curr_schedule),
                ConsumeUntilNextKind(rs, it, Head(it.curr_schedule).kind))
    ELSE [item |-> NoItem, it |-> it]

\* map(|dtr| dtr.range.end).unwrap_or(current_time)
EndOr(item, current_time) == IF item.some THEN item.end ELSE current_time

\* map(|dtr| dtr.kind).unwrap_or(RuleKind::Unknown)
KindOr(item) == IF item.some THEN item.kind ELSE "Unknown"

\* TimeDomain::next_change
NextChange(rs, current_time) ==
    EndOr(IteratorNext(rs, IteratorNew(rs, current_time)).item, current_time)

\* TimeDomain::state
State(rs, current_time) ==
    KindOr(IteratorNext(rs, IteratorNew(rs, current_time)).item)

Max(a, b) == IF a >= b THEN a ELSE b
Min(a, b) == IF a <= b THEN a ELSE b

\* the mutant of TakeWhileMap that does not clip the end of an interval
TakeWhileMapUnclippedEnd(r, f, t) ==
    IF r.item.some /\ r.item.start < t
    THEN [item |-> DateTimeRange(Max(r.item.start, f), r.item.end,
                                 r.item.kind, r.item.comments),
          it |-> r.it]
    ELSE [item |-> NoItem, it |-> r.it]

\* the adaptors of TimeDomain::intervals on what the inner iterator returned:
\* take_while on the start of the item, then the clipping map
TakeWhileMap(r, f, t) ==
    IF r.item.some /\ r.item.start < t
    THEN [item |-> DateTimeRange(Max(r.item.start, f), Min(r.item.end, t),
                                 r.item.kind, r.item.comments),
          it |-> r.it]
    ELSE [item |-> NoItem, it |-> r.it]

\* next() of the iterator TimeDomain::intervals returns
IntervalsNext(rs, f, t, it) == TakeWhileMap(IteratorNext(rs, it), f, t)

----------------------------------------------------------------------------
(* ExtendedTime *)

I16Min == -32768
I16Max == 32767
U8Max == 255

\* two's complement wrapping of a sum of two i16
WrapI16(x) == ((x - I16Min) % (I16Max - I16Min + 1)) + I16Min

Ok(h, m) == [tag |-> "Ok", hour |-> h, minute |-> m]
Err == [tag |-> "Err", hour |-> 0, minute |-> 0]
Panic == [tag |-> "Panic", hour |-> 0, minute |-> 0]

\* ExtendedTime::mins_from_midnight
MinsFromMidnight(t) == t.minute + 60 * t.hour

\* ExtendedTime::from_mins_from_midnight; the unwrap of the conversion of
\* the hour to u8 panics
FromMinsFromMidnight(minute) ==
    IF minute \div 60 > U8Max THEN Panic ELSE Ok(minute \div 60, minute % 60)

\* the outcomes of an i16 addition: the sum, or on overflow a panic (with
\* overflow checks) or the wrapped sum (without)
AddI16(a, b) ==
    IF a + b > I16Max \/ a + b < I16Min
    THEN {[panic |-> TRUE, val |-> 0], [panic |-> FALSE, val |-> WrapI16(a + b)]}
    ELSE {[panic |-> FALSE, val |-> a + b]}

\* ExtendedTime::add_minutes: the set of outcomes the builds can produce
AddMinutes(t, minutes) ==
    { IF as_minutes.panic THEN Panic
      ELSE IF as_minutes.val < 0 THEN Err
      ELSE FromMinsFromMidnight(as_minutes.val)
      : as_minutes \in AddI16(MinsFromMidnight(t), minutes) }

\* ExtendedTime::add_hours: the set of outcomes the builds can produce
AddHours(t, hours) ==
    { IF hour.panic THEN Panic
      ELSE IF hour.val < 0 \/ hour.val > U8Max THEN Err
      ELSE Ok(hour.val, t.minute)
      : hour \in AddI16(t.hour, hours) }

----------------------------------------------------------------------------
(* DateOffset *)

\* WeekDayOffset
WeekDayOffsetNone == [tag |-> "None", wday |-> 0]
WeekDayOffsetNext(target) == [tag |-> "Next", wday |-> target]
WeekDayOffsetPrev(target) == [tag |-> "Prev", wday |-> target]

\* the arms of the match on wday_offset in DateOffset::apply, on the date
\* already moved by day_offset
Snap(wday_offset, d) ==
    CASE wday_offset.tag = "None" -> d
      [] wday_offset.tag = "Prev" -> d - ((7 + wday_offset.wday - Weekday(d)) % 7)
      [] wday_offset.tag = "Next" -> d + ((7 + Weekday(d) - wday_offset.wday) % 7)

\* DateOffset::apply
DateOffsetApply(off, d) == Snap(off.wday_offset, d + off.day_offset)

----------------------------------------------------------------------------
(* Inputs *)

Range(a, b) == [start |-> a, end |-> b]
At(h, m) == h * MinsPerHour + m

Mon == 0
Tue == 1
Fri == 4
Sat == 5

\* the rules a TimeDomain is built from
RulePool ==
    { \* Fr 22:00-26:00
      [day_selector |-> {Fri}, time_selector |-> <<Range(At(22, 0), At(26, 0))>>,
       kind |-> "Open", operator |-> "Normal", comments |-> {}],
      \* 10:00-12:00 "a", additional
      [day_selector |-> {}, time_selector |-> <<Range(At(10, 0), At(12, 0))>>,
       kind |-> "Open", operator |-> "Additional", comments |-> {"a"}],
      \* Mo,Sa 12:00-14:00 "b", additional
      [day_selector |-> {Mon, Sat}, time_selector |-> <<Range(At(12, 0), At(14, 0))>>,
       kind |-> "Open", operator |-> "Additional", comments |-> {"b"}],
      \* Mo,Tu 09:00-11:00,21:00-25:00 closed
      [day_selector |-> {Mon, Tue},
       time_selector |-> <<Range(At(9, 0), At(11, 0)), Range(At(21, 0), At(25, 0))>>,
       kind |-> "Closed", operator |-> "Normal", comments |-> {}],
      \* Sa off
      [day_selector |-> {Sat}, time_selector |-> <<Range(At(0, 0), At(24, 0))>>,
       kind |-> "Closed", operator |-> "Normal", comments |-> {"c"}],
      \* fallback: 08:00-20:00 unknown "d"
      [day_selector |-> {}, time_selector |-> <<Range(At(8, 0), At(20, 0))>>,
       kind |-> "Unknown", operator |-> "Fallback", comments |-> {"d"}] }

RECURSIVE SeqsUpTo(_, _)
SeqsUpTo(S, n) ==
    IF n = 0 THEN {<<>>}
    ELSE LET shorter == SeqsUpTo(S, n - 1)
         IN  shorter \cup {Append(s, x) : s \in shorter, x \in S}

TimeDomains == SeqsUpTo(RulePool, MaxRules)

\* dates of the scaled calendar, one of them past year 9999
Dates == 0..(LastDay + 1)

\* times of day of the instants given to the iterator
StartTimes == {At(0, 0), At(1, 0), At(10, 30), At(12, 0), At(23, 0)}

Instants == {DateTime(d, t) : d \in Dates, t \in StartTimes}

\* midnight of the first day past year 9999
DateBound == DateTime(LastDay + 1, 0)

\* lengths of the spans given to TimeDomain::intervals
Spans == {0, 30, At(2, 0), At(13, 30), At(24, 0), At(49, 15)}

\* receivers and offsets given to add_minutes and add_hours
Hours == {0, 1, 23, 24, 47, 254, 255}
Minutes == {0, 1, 30, 59}
Offsets == {I16Min, -15360, -1441, -60, -1, 0, 1, 59, 60, 61, 255, 1440,
            15359, 15360, 17408, I16Max}

\* chrono::Weekday, Monday first
Weekdays == 0..6

\* the offsets given to DateOffset::apply
DateOffsets ==
    [wday_offset : {WeekDayOffsetNone}
                     \cup {WeekDayOffsetNext(w) : w \in Weekdays}
                     \cup {WeekDayOffsetPrev(w) : w \in Weekdays},
     day_offset : (-MaxDayOffset)..MaxDayOffset]

----------------------------------------------------------------------------
(* Values of the variables a specification does not use *)

IdleFold ==
    /\ date = 0 /\ idx = 0 /\ prev_eval = None /\ curr_eval = None
    /\ acc = None /\ resolved = None

IdleIter ==
    /\ from = 0 /\ to = 0 /\ curr_date = 0 /\ curr_schedule = <<>>
    /\ out = <<>> /\ ended = FALSE

IdleTime ==
    /\ time = [hour |-> 0, minute |-> 0] /\ offset = 0
    /\ result = [op |-> "none", outcome |-> Err]

\* the TimeDomainIterator the variables hold
Iterator == [curr_date |-> curr_date, curr_schedule |-> curr_schedule]
IteratorIs(it) == curr_date = it.curr_date /\ curr_schedule = it.curr_schedule

\* the effect of a call of next() that returned r.item and left r.it
Returned(r) ==
    /\ curr_date' = r.it.curr_date
    /\ curr_schedule' = r.it.curr_schedule
    /\ out' = IF r.item.some THEN Append(out, r.item) ELSE out
    /\ ended' = ~r.item.some

IdleOffset ==
    /\ anchor = 0
    /\ date_offset = [wday_offset |-> [tag |-> "None", wday |-> 0], day_offset |-> 0]
    /\ applied = [some |-> FALSE, date |-> 0]

offsetVars == <<anchor, date_offset, applied>>
foldVars == <<date, idx, prev_eval, curr_eval, acc, resolved>>
iterVars == <<from, to, curr_date, curr_schedule, out, ended>>
timeVars == <<time, offset, result>>

----------------------------------------------------------------------------
(* Specification of TimeDomain::schedule_at *)

InitSchedule ==
    /\ rules \in TimeDomains
    /\ date \in Dates
    /\ idx = 0
    /\ prev_eval = None
    /\ curr_eval = None
    /\ acc = None
    /\ resolved = None
    /\ IdleIter
    /\ IdleTime
    /\ IdleOffset

\* one call of the closure, on the next rule
FoldRule ==
    /\ idx < Len(rules)
    /\ ~resolved.some
    /\ prev_eval' = acc
    /\ curr_eval' = RuleSequenceScheduleAt(rules[idx + 1], date)
    /\ acc' = FoldStep(acc, rules[idx + 1], date)
    /\ idx' = idx + 1
    /\ UNCHANGED <<rules, offsetVars, date, resolved, iterVars, timeVars>>

\* the end of the fold: unwrap_or_else(Schedule::empty)
FoldReturn ==
    /\ idx = Len(rules)
    /\ ~resolved.some
    /\ resolved' = Some(UnwrapOrEmpty(acc))
    /\ UNCHANGED <<rules, offsetVars, date, idx, prev_eval, curr_eval, acc, iterVars, timeVars>>

NextSchedule == FoldRule \/ FoldReturn

SpecSchedule == InitSchedule /\ [][NextSchedule]_vars

\* the rule the last fold step consumed, and what its selector says of the
\* date and of the day before
LastRule == rules[idx]
MatchesToday == DayFilter(LastRule.day_selector, date)
MatchesYesterday == DayFilter(LastRule.day_selector, date - 1)

\* C1: after a rule with the Normal operator the running result of
\* TimeDomain::schedule_at is that rule's own contribution, also when the
\* contribution is no information; with two Normal rules of which the second
\* matches neither the date nor the day before, the resolved schedule is the
\* empty schedule.
C1_NormalReplaces ==
    /\ (idx > 0 /\ LastRule.operator = "Normal") =>
            /\ acc = RuleSequenceScheduleAt(LastRule, date)
            /\ (~MatchesToday /\ ~MatchesYesterday) => acc = None
    /\ ( /\ resolved.some
         /\ Len(rules) = 2
         /\ rules[1].operator = "Normal"
         /\ rules[2].operator = "Normal"
         /\ ~MatchesToday /\ ~MatchesYesterday ) => resolved.val = EmptySchedule

\* two Normal rules, the first with a non-empty schedule for the date, the
\* second silent about it: the fold returned the empty schedule
C1_Witness ==
    /\ resolved.some
    /\ Len(rules) = 2
    /\ rules[1].operator = "Normal"
    /\ rules[2].operator = "Normal"
    /\ prev_eval.some /\ prev_eval.val # EmptySchedule
    /\ ~MatchesToday /\ ~MatchesYesterday
    /\ resolved.val = EmptySchedule

\* C2: after a rule with the Additional operator the running result is the
\* addition of the previous result and the rule's contribution when both
\* carry information, the one that carries information when exactly one
\* does, and no information when neither does.
C2_AdditionalMerges ==
    (idx > 0 /\ LastRule.operator = "Additional") =>
        /\ (prev_eval.some /\ curr_eval.some) =>
                acc = Some(Addition(prev_eval.val, curr_eval.val))
        /\ (prev_eval.some /\ ~curr_eval.some) => acc = prev_eval
        /\ (~prev_eval.some /\ curr_eval.some) => acc = curr_eval
        /\ (~prev_eval.some /\ ~curr_eval.some) => acc = None

\* an Additional rule merged onto an earlier result: the sum is neither input
C2_Witness ==
    /\ idx = 2
    /\ LastRule.operator = "Additional"
    /\ prev_eval.some /\ curr_eval.some
    /\ acc.some
    /\ acc.val # prev_eval.val
    /\ acc.val # curr_eval.val

\* C3: RuleSequence::schedule_at returns no information exactly when the
\* selector matches neither the date nor the day before; else the schedule of
\* the date's intervals, of the previous day's overflow, or the addition of
\* both; a Friday rule 22:00-26:00 opens Saturday 01:00.
C3_RuleContribution ==
    idx > 0 =>
        LET today == FromRanges(IntervalsAt(LastRule.time_selector, date),
                                LastRule.kind, LastRule.comments)
            over  == FromRanges(IntervalsAtNextDay(LastRule.time_selector, date - 1),
                                LastRule.kind, LastRule.comments)
        IN  /\ ~curr_eval.some <=> (~MatchesToday /\ ~MatchesYesterday)
            /\ (MatchesToday /\ ~MatchesYesterday) => curr_eval = Some(today)
            /\ (~MatchesToday /\ MatchesYesterday) => curr_eval = Some(over)
            /\ (MatchesToday /\ MatchesYesterday) =>
                    curr_eval = Some(Addition(today, over))
            /\ ( /\ LastRule.day_selector = {Fri}
                 /\ LastRule.time_selector = <<Range(At(22, 0), At(26, 0))>>
                 /\ LastRule.kind = "Open"
                 /\ Weekday(date) = Sat ) =>
                    /\ curr_eval.some
                    /\ ValueAt(curr_eval.val, At(1, 0)).kind = "Open"

\* the Friday rule 22:00-26:00 evaluated on the Saturday: open 00:00-02:00
C3_Witness ==
    /\ idx > 0
    /\ LastRule.day_selector = {Fri}
    /\ Weekday(date) = Sat
    /\ ~MatchesToday /\ MatchesYesterday
    /\ curr_eval.some
    /\ ValueAt(curr_eval.val, At(1, 0)).kind = "Open"
    /\ ValueAt(curr_eval.val, At(2, 0)).kind = "None"

----------------------------------------------------------------------------
(* Specification of TimeDomain::iter_from and TimeDomainIterator::next *)

Init ==
    /\ rules \in TimeDomains
    /\ from \in Instants
    /\ to = 0
    /\ IteratorIs(IteratorNew(rules, from))
    /\ out = <<>>
    /\ ended = FALSE
    /\ IdleFold
    /\ IdleTime
    /\ IdleOffset

\* one call of next() on the iterator
IterNext ==
    /\ ~ended
    /\ Returned(IteratorNext(rules, Iterator))
    /\ UNCHANGED <<rules, offsetVars, from, to, foldVars, timeVars>>

Next == IterNext

Spec == Init /\ [][Next]_vars

Last(q) == q[Len(q)]

\* each item ends where the next one starts
Contiguous(q) == \A i \in 1..(Len(q) - 1) : q[i].end = q[i + 1].start

\* the entry of the start date's filled schedule that contains the start time
StartEntry ==
    LET filled == IntoIterFilled(TimeDomainScheduleAt(rules, DateOf(from)))
    IN  filled[CHOOSE i \in DOMAIN filled :
                   filled[i].start <= TimeOf(from) /\ TimeOf(from) < filled[i].end]

\* C4: two consecutive intervals of the iterator have different states, and
\* what is left after a call of next() starts with another state than the
\* interval just returned.
C4_ConsecutiveStatesDiffer ==
    /\ \A i \in 1..(Len(out) - 1) : out[i].kind # out[i + 1].kind
    /\ (out # <<>> /\ curr_schedule # <<>>) =>
            Head(curr_schedule).kind # Last(out).kind

\* an interval that runs over a whole day and more was followed by another
C4_Witness ==
    \E i \in 1..(Len(out) - 1) :
        /\ out[i].end - out[i].start > MinsPerDay
        /\ out[i].kind # out[i + 1].kind

\* C5 as stated: from a start instant of a year <= 9999 the first interval
\* begins at the start instant, the intervals are contiguous, and the stream
\* ends with an interval that ends at midnight of the first day past 9999.
C5_FirstBeginsAtStart ==
    YearInRange(DateOf(from)) =>
        /\ out # <<>> => out[1].start = from
        /\ Contiguous(out)
        /\ (ended \/ curr_schedule = <<>>) => (out # <<>> /\ Last(out).end = DateBound)

\* C5 as amended: the first interval begins at the start of the entry of the
\* start date's filled schedule that contains the start instant, at or before
\* that instant; the intervals are contiguous; the stream ends exactly after
\* an interval that ends at midnight of the first day past year 9999.
C5_PartitionFromEntryStart ==
    YearInRange(DateOf(from)) =>
        /\ out # <<>> =>
                /\ out[1].start = DateTime(DateOf(from), StartEntry.start)
                /\ out[1].start <= from
                /\ from < out[1].end
        /\ \A i \in DOMAIN out : out[i].start < out[i].end /\ out[i].end <= DateBound
        /\ Contiguous(out)
        /\ (ended \/ curr_schedule = <<>>) <=> (out # <<>> /\ Last(out).end = DateBound)

\* the stream ended at the date bound after a first interval that began
\* before the start instant
C5_Witness ==
    /\ YearInRange(DateOf(from))
    /\ ended
    /\ Len(out) >= 3
    /\ out[1].start < from
    /\ Last(out).end = DateBound

\* C8: next_change of the start of an interval the iterator returned is the
\* end of that interval.
C8_NextChangeOfStartIsEnd ==
    \A i \in DOMAIN out : NextChange(rules, out[i].start) = out[i].end

\* it was so for a first interval entered in its middle and for a later
\* interval that begins inside a day and ends on another day
C8_Witness ==
    /\ Len(out) >= 2
    /\ out[1].start < from
    /\ NextChange(rules, from) = out[1].end
    /\ \E i \in 2..Len(out) :
            /\ TimeOf(out[i].start) # 0
            /\ DateOf(out[i].end) > DateOf(out[i].start)
            /\ NextChange(rules, out[i].start) = out[i].end

\* the comments of the entries of the filled schedules whose start lies in
\* the span start..end
CommentsOver(start, end) ==
    UNION { LET filled == IntoIterFilled(TimeDomainScheduleAt(rules, d))
            IN  UNION { filled[j].comments :
                          j \in {k \in DOMAIN filled :
                                    /\ start <= DateTime(d, filled[k].start)
                                    /\ DateTime(d, filled[k].start) < end} }
            : d \in DateOf(start)..DateOf(end) }

\* C10: an interval of the iterator carries the union of the comments of all
\* the per-day entries consumed to form it.
C10_CommentsAreUnion ==
    \A i \in DOMAIN out : out[i].comments = CommentsOver(out[i].start, out[i].end)

----------------------------------------------------------------------------
(* Specification of TimeDomain::intervals *)

InitIntervals ==
    /\ rules \in TimeDomains
    /\ from \in Instants
    /\ to \in {from + n : n \in Spans}
    /\ IteratorIs(IteratorNew(rules, from))
    /\ out = <<>>
    /\ ended = FALSE
    /\ IdleFold
    /\ IdleTime
    /\ IdleOffset

\* one call of next() on the iterator that intervals(from, to) returned
IntervalsPull ==
    /\ ~ended
    /\ Returned(IntervalsNext(rules, from, to, Iterator))
    /\ UNCHANGED <<rules, offsetVars, from, to, foldVars, timeVars>>

NextIntervals == IntervalsPull

SpecIntervals == InitIntervals /\ [][NextIntervals]_vars

\* C6: intervals(t, t) yields no interval.
C6_EmptyWhenSameInstant == (from = to) => out = <<>>

\* C7 as stated: for from < to the intervals of intervals(from, to) cover
\* from..to exactly: the first starts at from, each ends where the next
\* starts, none is empty, the last ends at to.
C7_CoversFromTo ==
    (from < to) =>
        /\ out # <<>> => out[1].start = from
        /\ Contiguous(out)
        /\ \A i \in DOMAIN out : out[i].start < out[i].end
        /\ ended => (out # <<>> /\ Last(out).end = to)

\* C7 as amended: the same, for to at most midnight of the first day past
\* year 9999.
C7_CoversFromToWithinBound ==
    (from < to /\ to <= DateBound) =>
        /\ out # <<>> => out[1].start = from
        /\ Contiguous(out)
        /\ \A i \in DOMAIN out : out[i].start < out[i].end /\ out[i].end <= to
        /\ ended => (out # <<>> /\ Last(out).end = to)

\* a span over more than a day, entered and left inside an interval, was
\* covered by three intervals or more
C7_Witness ==
    /\ from < to /\ to <= DateBound
    /\ to - from > MinsPerDay
    /\ ended
    /\ Len(out) >= 3
    /\ out[1].start = from
    /\ Last(out).end = to
    /\ NextChange(rules, from) > from
    /\ NextChange(rules, to) > to
    /\ State(rules, from) = out[1].kind

----------------------------------------------------------------------------
(* Specification of ExtendedTime::add_minutes and ExtendedTime::add_hours *)

InitTime ==
    /\ time \in [hour : Hours, minute : Minutes]
    /\ offset \in Offsets
    /\ result = [op |-> "none", outcome |-> Err]
    /\ rules = <<>>
    /\ IdleFold
    /\ IdleIter
    /\ IdleOffset

CallAddMinutes ==
    /\ result.op = "none"
    /\ \E o \in AddMinutes(time, offset) :
            result' = [op |-> "add_minutes", outcome |-> o]
    /\ UNCHANGED <<rules, offsetVars, foldVars, iterVars, time, offset>>

CallAddHours ==
    /\ result.op = "none"
    /\ \E o \in AddHours(time, offset) :
            result' = [op |-> "add_hours", outcome |-> o]
    /\ UNCHANGED <<rules, offsetVars, foldVars, iterVars, time, offset>>

NextTime == CallAddMinutes \/ CallAddHours

SpecTime == InitTime /\ [][NextTime]_vars

\* the exact result of the call, in minutes from midnight
ExactMinutes ==
    IF result.op = "add_minutes"
    THEN MinsFromMidnight(time) + offset
    ELSE MinsFromMidnight(time) + 60 * offset

Representable(mins) == mins >= 0 /\ mins \div 60 <= U8Max

\* C9: add_minutes and add_hours return the exact result with minute < 60,
\* or an error when the result is outside the representable hour range; they
\* never panic and never return a wrapped value.
C9_ExactOrError ==
    result.op # "none" =>
        /\ result.outcome.tag # "Panic"
        /\ result.outcome.tag = "Ok" <=> Representable(ExactMinutes)
        /\ result.outcome.tag = "Ok" =>
                /\ result.outcome.minute < 60
                /\ MinsFromMidnight(result.outcome) = ExactMinutes

----------------------------------------------------------------------------
(* Specification of DateOffset::apply *)

InitOffset ==
    /\ anchor \in 0..MaxAnchor
    /\ date_offset \in DateOffsets
    /\ applied = [some |-> FALSE, date |-> 0]
    /\ rules = <<>>
    /\ IdleFold
    /\ IdleIter
    /\ IdleTime

CallApply ==
    /\ ~applied.some
    /\ applied' = [some |-> TRUE, date |-> DateOffsetApply(date_offset, anchor)]
    /\ UNCHANGED <<rules, anchor, date_offset, foldVars, iterVars, timeVars>>

NextOffset == CallApply

SpecOffset == InitOffset /\ [][NextOffset]_vars

\* the anchor moved by the signed day count
Shifted == anchor + date_offset.day_offset

\* C11: DateOffset::apply moves the date by the day count and then, for
\* Next(W), returns the earliest date on or after it whose weekday is W, for
\* Prev(W) the latest date on or before it whose weekday is W (0 to 6 days in
\* that direction, 0 when already on W), and without snap the moved date.
C11_SnapsToWeekday ==
    applied.some =>
        LET w == date_offset.wday_offset
        IN  /\ w.tag = "None" => applied.date = Shifted
            /\ w.tag = "Next" =>
                    /\ Weekday(applied.date) = w.wday
                    /\ applied.date - Shifted \in 0..6
            /\ w.tag = "Prev" =>
                    /\ Weekday(applied.date) = w.wday
                    /\ Shifted - applied.date \in 0..6
            /\ (w.tag # "None" /\ Weekday(Shifted) = w.wday) => applied.date = Shifted

====
